---- MODULE Spec2Model ----
(***************************************************************************)
(* Model of vanir's parser.py: the Parser facade over the language parser  *)
(* collection.  A Parser is constructed once from (file_path, target_file, *)
(* affected_line_ranges); construction calls language_parsers.parse_file   *)
(* once, logs the parse errors, wraps every function chunk of the result   *)
(* and builds the line chunk.  Two accessors read what was stored.         *)
(*                                                                         *)
(* language_parsers and signature are other modules of the repository;     *)
(* they are modelled after the specification (registry lookup by           *)
(* extension, file read, provider with inclusive range overlap, chunk      *)
(* value objects).                                                         *)
(***************************************************************************)
EXTENDS Integers, Sequences, FiniteSets, TLC

VARIABLES
  parsers,  \* the Parser objects: construction outcome, arguments, attributes
  log,      \* the warning events logged so far
  ret       \* the last value returned by an accessor or by is_supported_type

vars == <<parsers, log, ret>>

(* ------------------------------ bounds --------------------------------- *)

\* longest affected_line_ranges list a caller passes
MaxRanges == 2

(* ------------------------------ inputs --------------------------------- *)

\* the Parser objects of a run; each is constructed at most once
ParserIds == {"p1", "p2"}

\* a file name, split at its last dot
Path(stem, ext) == [stem |-> stem, ext |-> ext]

IrqC == Path("/tmp/ws/irq", "c")
DevC == Path("/tmp/ws/dev", "c")
EmptyH == Path("/tmp/ws/empty", "h")
FooUnknown == Path("/tmp/ws/foo", "unknownext")
GoneC == Path("/tmp/ws/gone", "c")

FilePaths == {IrqC, DevC, EmptyH, FooUnknown, GoneC}

\* labels of the target system, relative paths
TargetFiles == {Path("arch/x86/pci/irq", "c"), Path("drivers/dev", "c")}

\* line ranges a patch may touch, (start, end), 1-indexed, inclusive
AffectedRangeValues == {<<20, 20>>, <<21, 30>>}

SeqsUpTo(S, n) == UNION {[1..k -> S] : k \in 0..n}

\* Optional[Sequence[Tuple[int, int]]]
None == [none |-> TRUE, val |-> <<>>]
Some(v) == [none |-> FALSE, val |-> v]

RangeInputs == {None} \cup {Some(s) : s \in SeqsUpTo(AffectedRangeValues, MaxRanges)}

Fn(name, first, last) == [name |-> name, span |-> <<first, last>>]

\* what is on disk: the functions a grammar finds in each readable file,
\* its number of lines and the syntax errors met while parsing it
FileSystem ==
  (IrqC :> [functions |-> <<Fn("f1", 1, 5), Fn("f2", 20, 22), Fn("f3", 30, 35)>>,
            lines |-> 35, errors |-> <<>>])
  @@ (DevC :> [functions |-> <<Fn("g", 10, 20)>>,
               lines |-> 30, errors |-> <<"e1", "e2">>])
  @@ (EmptyH :> [functions |-> <<>>, lines |-> 3, errors |-> <<"e3">>])
  @@ (FooUnknown :> [functions |-> <<Fn("h", 10, 20)>>, lines |-> 20, errors |-> <<>>])

(* ------------------- language_parsers (from the spec) ------------------ *)

\* the registry: extension -> parsing strategy
ParserRegistry == ("c" :> "cpp_parser") @@ ("h" :> "cpp_parser") @@ ("java" :> "java_parser")

NoParser == "no_parser"

get_parser_class(filename) ==
  IF filename.ext \in DOMAIN ParserRegistry THEN ParserRegistry[filename.ext] ELSE NoParser

\* [a_start, a_end] and [b_start, b_end] overlap
ranges_overlap(a, b) == a[1] <= b[2] /\ b[1] <= a[2]

\* empty ranges: the whole file is affected
is_affected(span, ranges) ==
  \/ ranges = <<>>
  \/ \E i \in 1..Len(ranges) : ranges_overlap(span, ranges[i])

RECURSIVE affected_functions(_, _)
affected_functions(functions, ranges) ==
  IF functions = <<>> THEN <<>>
  ELSE LET rest == affected_functions(Tail(functions), ranges)
       IN IF is_affected(Head(functions).span, ranges)
          THEN <<Head(functions)>> \o rest ELSE rest

NoLineData == [file |-> Path("", ""), lines |-> 0]

Failure(raised, trace) ==
  [raised |-> raised, trace |-> trace, function_chunks |-> <<>>,
   line_chunk |-> NoLineData, parse_errors |-> <<>>]

\* resolve the strategy, read the file, run the provider once
parse_file(file_path, functions_line_ranges) ==
  IF get_parser_class(file_path) = NoParser
  THEN Failure("UnsupportedFileType", <<"resolve">>)
  ELSE IF file_path \notin DOMAIN FileSystem
  THEN Failure("IOFailure", <<"resolve", "read">>)
  ELSE LET content == FileSystem[file_path]
       IN [raised |-> "none",
           trace |-> <<"resolve", "read", "parse">>,
           function_chunks |-> affected_functions(content.functions, functions_line_ranges),
           line_chunk |-> [file |-> file_path, lines |-> content.lines],
           parse_errors |-> content.errors]

(* ----------------------- signature (from the spec) --------------------- *)

create_function_chunk(chunk_base, target_file) ==
  [base |-> chunk_base, target_file |-> target_file]

create_line_chunk(line_chunk_base, affected_line_ranges, target_file) ==
  [base |-> line_chunk_base, affected_line_ranges |-> affected_line_ranges,
   target_file |-> target_file]

NoLineChunk == create_line_chunk(NoLineData, <<>>, Path("", ""))

(* ------------------------------ parser.py ------------------------------ *)

\* the test inverted
is_supported_type_inverted(filename) == get_parser_class(filename) = NoParser

is_supported_type(filename) == get_parser_class(filename) # NoParser

\* the ranges are never passed on
NormalizeRangesAlwaysEmpty(affected_line_ranges) == <<>>

\* only the first range is passed on
NormalizeRangesFirstOnly(affected_line_ranges) ==
  IF affected_line_ranges.none \/ affected_line_ranges.val = <<>>
  THEN <<>> ELSE <<Head(affected_line_ranges.val)>>

\* if not affected_line_ranges: affected_line_ranges = []
NormalizeRanges(affected_line_ranges) ==
  IF affected_line_ranges.none \/ affected_line_ranges.val = <<>>
  THEN <<>> ELSE affected_line_ranges.val

\* only the first parse error is logged
LogParseErrorsFirstOnly(file_path, target_file, parse_errors) ==
  IF parse_errors # <<>>
  THEN <<[file_path |-> file_path, target_file |-> target_file,
          parse_errors |-> <<Head(parse_errors)>>]>>
  ELSE <<>>

\* logging.warning(...) when results.parse_errors is not empty
LogParseErrors(file_path, target_file, parse_errors) ==
  IF parse_errors # <<>>
  THEN <<[file_path |-> file_path, target_file |-> target_file,
          parse_errors |-> parse_errors]>>
  ELSE <<>>

\* the first chunk of the result is skipped
WrapFunctionChunksSkipFirst(function_chunks, target_file) ==
  [i \in 1..(Len(function_chunks) - 1) |->
     create_function_chunk(function_chunks[i + 1], target_file)]

\* only the first chunk of the result is wrapped
WrapFunctionChunksFirstOnly(function_chunks, target_file) ==
  [i \in 1..(IF function_chunks = <<>> THEN 0 ELSE 1) |->
     create_function_chunk(function_chunks[i], target_file)]

\* the list comprehension over results.function_chunks
WrapFunctionChunks(function_chunks, target_file) ==
  [i \in 1..Len(function_chunks) |->
     create_function_chunk(function_chunks[i], target_file)]

\* the chunks are labelled with file_path
ParserInitPathLabel(file_path, target_file, affected_line_ranges) ==
  LET ranges == NormalizeRanges(affected_line_ranges)
      results == parse_file(file_path, ranges)
  IN IF results.raised # "none"
     THEN [raised |-> results.raised, attrs |-> {},
           function_chunks |-> <<>>, line_chunk |-> NoLineChunk,
           logged |-> <<>>, results |-> results]
     ELSE [raised |-> "none", attrs |-> {"_function_chunks", "_line_chunk"},
           function_chunks |-> WrapFunctionChunks(results.function_chunks, file_path),
           line_chunk |-> create_line_chunk(results.line_chunk, ranges, file_path),
           logged |-> LogParseErrors(file_path, target_file, results.parse_errors),
           results |-> results]

\* self._function_chunks = [] is assigned before parse_file is called
ParserInitEarlyStore(file_path, target_file, affected_line_ranges) ==
  LET ranges == NormalizeRanges(affected_line_ranges)
      results == parse_file(file_path, ranges)
  IN IF results.raised # "none"
     THEN [raised |-> results.raised, attrs |-> {"_function_chunks"},
           function_chunks |-> <<>>, line_chunk |-> NoLineChunk,
           logged |-> <<>>, results |-> results]
     ELSE [raised |-> "none", attrs |-> {"_function_chunks", "_line_chunk"},
           function_chunks |-> WrapFunctionChunks(results.function_chunks, target_file),
           line_chunk |-> create_line_chunk(results.line_chunk, ranges, target_file),
           logged |-> LogParseErrors(file_path, target_file, results.parse_errors),
           results |-> results]

\* _function_chunks is one list shared by every Parser and appended to
ParserInitSharedList(file_path, target_file, affected_line_ranges) ==
  LET ranges == NormalizeRanges(affected_line_ranges)
      results == parse_file(file_path, ranges)
      shared == IF \E q \in DOMAIN parsers : parsers[q].state = "ok"
                THEN parsers[CHOOSE q \in DOMAIN parsers : parsers[q].state = "ok"].function_chunks
                ELSE <<>>
  IN IF results.raised # "none"
     THEN [raised |-> results.raised, attrs |-> {},
           function_chunks |-> <<>>, line_chunk |-> NoLineChunk,
           logged |-> <<>>, results |-> results]
     ELSE [raised |-> "none", attrs |-> {"_function_chunks", "_line_chunk"},
           function_chunks |-> shared \o WrapFunctionChunks(results.function_chunks, target_file),
           line_chunk |-> create_line_chunk(results.line_chunk, ranges, target_file),
           logged |-> LogParseErrors(file_path, target_file, results.parse_errors),
           results |-> results]

\* Parser.__init__: the object's attributes after the call, what it raised,
\* what it logged and the provider's result it worked from
ParserInit(file_path, target_file, affected_line_ranges) ==
  LET ranges == NormalizeRanges(affected_line_ranges)
      results == parse_file(file_path, ranges)
  IN IF results.raised # "none"
     THEN [raised |-> results.raised, attrs |-> {},
           function_chunks |-> <<>>, line_chunk |-> NoLineChunk,
           logged |-> <<>>, results |-> results]
     ELSE [raised |-> "none", attrs |-> {"_function_chunks", "_line_chunk"},
           function_chunks |-> WrapFunctionChunks(results.function_chunks, target_file),
           line_chunk |-> create_line_chunk(results.line_chunk, ranges, target_file),
           logged |-> LogParseErrors(file_path, target_file, results.parse_errors),
           results |-> results]

\* the list is handed out and emptied
get_function_chunks_draining(self) ==
  [value |-> self.function_chunks, self |-> [self EXCEPT !.function_chunks = <<>>]]

\* the accessors: the value returned and the object afterwards
get_function_chunks(self) == [value |-> self.function_chunks, self |-> self]

get_line_chunk(self) == [value |-> self.line_chunk, self |-> self]

(* ------------------------------- state --------------------------------- *)

NoArgs == [file_path |-> Path("", ""), target_file |-> Path("", ""),
           affected_line_ranges |-> None]

NewParser ==
  [state |-> "new", args |-> NoArgs, attrs |-> {},
   function_chunks |-> <<>>, line_chunk |-> NoLineChunk,
   results |-> Failure("none", <<>>)]

NoRet == [method |-> "none", parser |-> "", file |-> Path("", ""),
          chunks |-> <<>>, line |-> NoLineChunk, flag |-> FALSE]

Init ==
  /\ parsers = [p \in ParserIds |-> NewParser]
  /\ log = <<>>
  /\ ret = NoRet

\* p = Parser(file_path, target_file, affected_line_ranges)
Construct(p, file_path, target_file, affected_line_ranges) ==
  /\ parsers[p].state = "new"
  /\ LET r == ParserInit(file_path, target_file, affected_line_ranges)
     IN /\ parsers' = [parsers EXCEPT ![p] =
                         [state |-> IF r.raised = "none" THEN "ok" ELSE r.raised,
                          args |-> [file_path |-> file_path, target_file |-> target_file,
                                    affected_line_ranges |-> affected_line_ranges],
                          attrs |-> r.attrs,
                          function_chunks |-> r.function_chunks,
                          line_chunk |-> r.line_chunk,
                          results |-> r.results]]
        /\ log' = log \o r.logged
  /\ UNCHANGED ret

\* p.get_function_chunks()
GetFunctionChunks(p) ==
  /\ parsers[p].state = "ok"
  /\ LET r == get_function_chunks(parsers[p])
     IN /\ parsers' = [parsers EXCEPT ![p] = r.self]
        /\ ret' = [NoRet EXCEPT !.method = "get_function_chunks", !.parser = p,
                                !.chunks = r.value]
  /\ UNCHANGED log

\* p.get_line_chunk()
GetLineChunk(p) ==
  /\ parsers[p].state = "ok"
  /\ LET r == get_line_chunk(parsers[p])
     IN /\ parsers' = [parsers EXCEPT ![p] = r.self]
        /\ ret' = [NoRet EXCEPT !.method = "get_line_chunk", !.parser = p,
                                !.line = r.value]
  /\ UNCHANGED log

\* is_supported_type(filename)
IsSupportedType(filename) ==
  /\ ret' = [NoRet EXCEPT !.method = "is_supported_type", !.file = filename,
                          !.flag = is_supported_type(filename)]
  /\ UNCHANGED <<parsers, log>>

Next ==
  \/ \E p \in ParserIds, f \in FilePaths, t \in TargetFiles, r \in RangeInputs :
        Construct(p, f, t, r)
  \/ \E p \in ParserIds : GetFunctionChunks(p)
  \/ \E p \in ParserIds : GetLineChunk(p)
  \/ \E f \in FilePaths : IsSupportedType(f)

Spec == Init /\ [][Next]_vars

(* ------------------------- properties ---------------------------------- *)

Failures == {"UnsupportedFileType", "IOFailure"}

Constructed(p) == parsers[p].state = "ok"

\* the ranges the caller gave; an omitted argument is the empty list
GivenRanges(p) ==
  IF parsers[p].args.affected_line_ranges.none
  THEN <<>> ELSE parsers[p].args.affected_line_ranges.val

\* the functions and parse errors of the file a Parser was constructed on
FileFunctions(p) == FileSystem[parsers[p].args.file_path].functions

FileErrors(p) == FileSystem[parsers[p].args.file_path].errors

\* the raw chunks under the stored function chunks, in order
StoredBases(p) ==
  [i \in 1..Len(parsers[p].function_chunks) |-> parsers[p].function_chunks[i].base]

\* a function's span shares a line with one of the given ranges
OverlapsGiven(f, p) ==
  \E i \in 1..Len(GivenRanges(p)) :
     f.span[1] <= GivenRanges(p)[i][2] /\ GivenRanges(p)[i][1] <= f.span[2]

\* C1: with non-empty affected ranges, a constructed Parser's function
\* chunks are, one per span and in the file's order, exactly the function
\* spans that overlap (inclusively) at least one of the ranges.
C1_AffectedSubsequence ==
  \A p \in ParserIds :
     (Constructed(p) /\ GivenRanges(p) # <<>>) =>
        StoredBases(p) = SelectSeq(FileFunctions(p), LAMBDA f : OverlapsGiven(f, p))

\* a boundary range keeps the middle function only; the other two are dropped
C1_Witness ==
  \E p \in ParserIds :
     /\ Constructed(p)
     /\ parsers[p].args.file_path = IrqC
     /\ GivenRanges(p) = <<<<20, 20>>>>
     /\ StoredBases(p) = <<Fn("f2", 20, 22)>>

\* C2: with empty, omitted or None affected ranges nothing is filtered: a
\* constructed Parser has one function chunk per function span of the file.
C2_EmptyRangesKeepAll ==
  \A p \in ParserIds :
     (Constructed(p) /\ GivenRanges(p) = <<>>) =>
        /\ Len(parsers[p].function_chunks) = Len(FileFunctions(p))
        /\ StoredBases(p) = FileFunctions(p)

\* one Parser built with None and one with an empty list, three chunks each
C2_Witness ==
  \E p, q \in ParserIds :
     /\ Constructed(p) /\ Constructed(q)
     /\ parsers[p].args.affected_line_ranges = None
     /\ parsers[q].args.affected_line_ranges = Some(<<>>)
     /\ Len(parsers[p].function_chunks) = 3
     /\ Len(parsers[q].function_chunks) = 3

\* C3: every constructed Parser holds exactly one line chunk, whose
\* affected ranges are the caller's ranges verbatim and whose raw data is
\* the provider's line data of the file.
C3_OneLineChunkVerbatim ==
  \A p \in ParserIds :
     Constructed(p) =>
        /\ "_line_chunk" \in parsers[p].attrs
        /\ parsers[p].line_chunk.affected_line_ranges = GivenRanges(p)
        /\ parsers[p].line_chunk.base =
              [file |-> parsers[p].args.file_path,
               lines |-> FileSystem[parsers[p].args.file_path].lines]

\* duplicate ranges, a file without functions and with a parse error
C3_Witness ==
  \E p \in ParserIds :
     /\ Constructed(p)
     /\ parsers[p].args.file_path = EmptyH
     /\ parsers[p].function_chunks = <<>>
     /\ parsers[p].line_chunk.affected_line_ranges = <<<<21, 30>>, <<21, 30>>>>

\* the Parsers whose construction met parse errors
WithErrors == {p \in ParserIds : Constructed(p) /\ FileErrors(p) # <<>>}

\* C4: parse errors never abort or alter extraction: construction on a
\* supported, readable file succeeds, the stored chunks are those the
\* functions, lines and ranges alone determine, and each construction with
\* parse errors logs one warning with file_path, target_file and all errors.
C4_DiagnosticsNonFatal ==
  /\ \A p \in ParserIds :
        (/\ parsers[p].state # "new"
         /\ parsers[p].args.file_path.ext \in DOMAIN ParserRegistry
         /\ parsers[p].args.file_path \in DOMAIN FileSystem) =>
           /\ Constructed(p)
           /\ StoredBases(p) =
                 IF GivenRanges(p) = <<>> THEN FileFunctions(p)
                 ELSE SelectSeq(FileFunctions(p), LAMBDA f : OverlapsGiven(f, p))
           /\ parsers[p].line_chunk.base.lines = FileSystem[parsers[p].args.file_path].lines
  /\ Len(log) = Cardinality(WithErrors)
  /\ \A p \in WithErrors :
        \E i \in 1..Len(log) :
           log[i] = [file_path |-> parsers[p].args.file_path,
                     target_file |-> parsers[p].args.target_file,
                     parse_errors |-> FileErrors(p)]

\* one function span and two parse errors: one chunk, both errors logged
C4_Witness ==
  \E p \in ParserIds :
     /\ Constructed(p)
     /\ parsers[p].args.file_path = DevC
     /\ Len(parsers[p].function_chunks) = 1
     /\ \E i \in 1..Len(log) : log[i].parse_errors = <<"e1", "e2">>

\* C5: a construction on an unsupported or unreadable file fails and leaves
\* no stored function chunk sequence and no line chunk.
C5_AllOrNothing ==
  \A p \in ParserIds :
     /\ (/\ parsers[p].state # "new"
         /\ \/ parsers[p].args.file_path.ext \notin DOMAIN ParserRegistry
            \/ parsers[p].args.file_path \notin DOMAIN FileSystem)
           => parsers[p].state \in Failures
     /\ parsers[p].state \in Failures =>
           /\ parsers[p].attrs = {}
           /\ parsers[p].function_chunks = <<>>
           /\ parsers[p].line_chunk = NoLineChunk

\* one construction failed on the file type, the other on the read
C5_Witness ==
  \E p, q \in ParserIds :
     /\ parsers[p].state = "UnsupportedFileType"
     /\ parsers[q].state = "IOFailure"

\* C6: a construction on a file is_supported_type rejects fails with
\* UnsupportedFileType at strategy resolution: the file is not read and the
\* provider is not run.
C6_UnsupportedFailsFirst ==
  /\ \A p \in ParserIds :
        (parsers[p].state # "new" /\ ~is_supported_type(parsers[p].args.file_path)) =>
           /\ parsers[p].state = "UnsupportedFileType"
           /\ parsers[p].results.trace = <<"resolve">>
  /\ \A p \in ParserIds :
        (/\ ret.method = "is_supported_type" /\ ~ret.flag
         /\ parsers[p].state # "new" /\ parsers[p].args.file_path = ret.file) =>
           parsers[p].state = "UnsupportedFileType"

\* is_supported_type said no to a file that exists, and a construction on it failed
C6_Witness ==
  \E p \in ParserIds :
     /\ ret.method = "is_supported_type" /\ ~ret.flag /\ ret.file = FooUnknown
     /\ parsers[p].args.file_path = FooUnknown
     /\ parsers[p].state = "UnsupportedFileType"

\* C7: every function chunk and the line chunk of a constructed Parser carry
\* the target_file argument as label, never the file_path.
C7_SameTargetLabel ==
  \A p \in ParserIds :
     Constructed(p) =>
        /\ \A i \in 1..Len(parsers[p].function_chunks) :
              /\ parsers[p].function_chunks[i].target_file = parsers[p].args.target_file
              /\ parsers[p].function_chunks[i].target_file # parsers[p].args.file_path
        /\ parsers[p].line_chunk.target_file = parsers[p].args.target_file
        /\ parsers[p].line_chunk.target_file # parsers[p].args.file_path

\* two Parsers with different labels, one of them with several function chunks
C7_Witness ==
  \E p, q \in ParserIds :
     /\ Constructed(p) /\ Constructed(q)
     /\ parsers[p].args.target_file # parsers[q].args.target_file
     /\ Len(parsers[p].function_chunks) >= 2

\* C8: once a Parser is constructed no step changes what it stores, and an
\* accessor call returns the stored value.
C8_AccessorsPureReads ==
  [][\A p \in ParserIds :
        Constructed(p) =>
           /\ parsers'[p] = parsers[p]
           /\ (ret' # ret /\ ret'.method = "get_function_chunks" /\ ret'.parser = p)
                 => ret'.chunks = parsers[p].function_chunks
           /\ (ret' # ret /\ ret'.method = "get_line_chunk" /\ ret'.parser = p)
                 => ret'.line = parsers[p].line_chunk]_vars

\* get_function_chunks returned a non-empty list that is still stored
C8_Witness ==
  \E p \in ParserIds :
     /\ ret.method = "get_function_chunks" /\ ret.parser = p
     /\ ret.chunks # <<>>
     /\ parsers[p].function_chunks = ret.chunks

C10_WrapsEveryProviderChunk ==
  \A p \in ParserIds :
     Constructed(p) =>
        /\ Len(parsers[p].function_chunks) = Len(parsers[p].results.function_chunks)
        /\ StoredBases(p) = parsers[p].results.function_chunks
        /\ Len(SelectSeq(parsers[p].results.trace, LAMBDA e : e = "parse")) = 1

\* the provider returned two of the file's three functions, both are stored
C10_Witness ==
  \E p \in ParserIds :
     /\ Constructed(p)
     /\ Len(parsers[p].results.function_chunks) = 2
     /\ Len(FileFunctions(p)) = 3
     /\ Len(parsers[p].function_chunks) = 2
====
